---- MODULE Spec2Model ----
(***************************************************************************)
(* Model of scripts/parse_words.py: the French word difficulty classifier  *)
(* (count_syllables, is_technical_term, has_complex_spelling,              *)
(* categorize_word) and the batch build parse_words_file.                  *)
(*                                                                         *)
(* A Python str is a sequence of one-character strings.                    *)
(***************************************************************************)
EXTENDS Integers, Sequences, FiniteSets, TLC

VARIABLES
  text,               \* argument of the function call under study
  fn,                 \* function that was called on text, "none" before the call
  ret,                \* value the call returned (or the exception it raised)
  pc,                 \* position of parse_words_file
  input_file,         \* what is at the input path
  output_env,         \* how the output path behaves when written
  output_file,        \* what is at the output path
  words_data,         \* the dict json.load produced
  remaining,          \* keys the for loop has not visited yet
  categorized_words,  \* the three tier dicts
  stdout,             \* lines printed so far
  exc                 \* exception in flight, "None" when there is none

vars == <<text, fn, ret, pc, input_file, output_env, output_file, words_data,
          remaining, categorized_words, stdout, exc>>

fn_vars == <<text, fn, ret>>

build_vars == <<pc, input_file, output_env, output_file, words_data, remaining,
                categorized_words, stdout, exc>>

(***************************************************************************)
(* Bounds of the model                                                     *)
(***************************************************************************)
MaxPad == 2        \* whitespace characters around a padded word
MaxRep == 7        \* repetitions of a filler unit in a built word
MaxSylLen == 4     \* length of the exhaustively enumerated short words
MaxTokens == 4     \* tokens of a phrase
MaxTokLen == 16    \* length of the first token of a phrase
MaxEntries == 3    \* key/value pairs in the input JSON object

(***************************************************************************)
(* Characters and str methods                                              *)
(***************************************************************************)
LowerChars ==
  <<"a", "b", "c", "d", "e", "f", "g", "h", "i", "j", "k", "l", "m", "n", "o", "p", "q", "r", "s", "t", "u", "v", "w", "x", "y", "z", "à", "á", "â", "ä", "è", "é", "ê", "ë", "ì", "í", "î", "ï", "ò", "ó", "ô", "ö", "ù", "ú", "û", "ü">>

UpperChars ==
  <<"A", "B", "C", "D", "E", "F", "G", "H", "I", "J", "K", "L", "M", "N", "O", "P", "Q", "R", "S", "T", "U", "V", "W", "X", "Y", "Z", "À", "Á", "Â", "Ä", "È", "É", "Ê", "Ë", "Ì", "Í", "Î", "Ï", "Ò", "Ó", "Ô", "Ö", "Ù", "Ú", "Û", "Ü">>

\* characters str.strip() and str.split() treat as whitespace
Whitespace == {" ", "\t", "\n"}

LowerOf ==
  [c \in {UpperChars[i] : i \in 1..Len(UpperChars)} |->
     LowerChars[CHOOSE i \in 1..Len(UpperChars) : UpperChars[i] = c]]

UpperOf ==
  [c \in {LowerChars[i] : i \in 1..Len(LowerChars)} |->
     UpperChars[CHOOSE i \in 1..Len(LowerChars) : LowerChars[i] = c]]

\* str.lower() on one character
char_lower(c) == IF c \in DOMAIN LowerOf THEN LowerOf[c] ELSE c

\* str.upper() on one character
char_upper(c) == IF c \in DOMAIN UpperOf THEN UpperOf[c] ELSE c

\* str.lower()
lower(s) == [i \in 1..Len(s) |-> char_lower(s[i])]

RECURSIVE lstrip(_)
lstrip(s) ==
  IF s # <<>> /\ Head(s) \in Whitespace THEN lstrip(Tail(s)) ELSE s

RECURSIVE rstrip(_)
rstrip(s) ==
  IF s # <<>> /\ s[Len(s)] \in Whitespace
  THEN rstrip(SubSeq(s, 1, Len(s) - 1))
  ELSE s

\* str.strip()
strip(s) == rstrip(lstrip(s))

RECURSIVE split_scan(_, _, _)
split_scan(s, cur, out) ==
  IF s = <<>>
  THEN IF cur = <<>> THEN out ELSE Append(out, cur)
  ELSE IF Head(s) \in Whitespace
       THEN split_scan(Tail(s), <<>>, IF cur = <<>> THEN out ELSE Append(out, cur))
       ELSE split_scan(Tail(s), Append(cur, Head(s)), out)

\* str.split() with no separator: the runs of non-whitespace characters
split(s) == split_scan(s, <<>>, <<>>)

\* str.replace(old, '') for a one-character old
replace_char(s, old) == SelectSeq(s, LAMBDA c : c # old)

\* str.endswith(suffix)
endswith(s, suffix) ==
  /\ Len(suffix) <= Len(s)
  /\ SubSeq(s, Len(s) - Len(suffix) + 1, Len(s)) = suffix

max(a, b) == IF a >= b THEN a ELSE b

(***************************************************************************)
(* count_syllables                                                         *)
(***************************************************************************)
vowels ==
  {"a", "e", "i", "o", "u", "y", "à", "á", "â", "ä", "è", "é", "ê", "ë", "ì", "í", "î", "ï", "ò", "ó", "ô", "ö", "ù", "ú", "û", "ü"}

\* the for loop of count_syllables, from character i on
RECURSIVE vowel_scan(_, _, _, _)
vowel_scan(word_clean, i, syllable_count, prev_was_vowel) ==
  IF i > Len(word_clean)
  THEN syllable_count
  ELSE IF word_clean[i] \in vowels
       THEN vowel_scan(word_clean, i + 1,
                       IF ~prev_was_vowel THEN syllable_count + 1 ELSE syllable_count,
                       TRUE)
       ELSE vowel_scan(word_clean, i + 1, syllable_count, FALSE)

\* count_syllables without the final max(1, ...)
count_syllables_no_floor(word) ==
  LET word_clean == lower(word)
      scanned == vowel_scan(word_clean, 1, 0, FALSE)
  IN  IF endswith(word_clean, <<"e">>) /\ scanned > 1 THEN scanned - 1 ELSE scanned

count_syllables(word) ==
  LET word_clean == lower(word)
      scanned == vowel_scan(word_clean, 1, 0, FALSE)
      adjusted == IF endswith(word_clean, <<"e">>) /\ scanned > 1
                  THEN scanned - 1
                  ELSE scanned
  IN  max(1, adjusted)

(***************************************************************************)
(* is_technical_term and has_complex_spelling                              *)
(***************************************************************************)
technical_patterns ==
  <<
    <<"t","i","o","n">>, <<"s","i","o","n">>, <<"i","q","u","e">>,
    <<"l","o","g","i","e">>, <<"g","r","a","p","h","i","e">>, <<"m","é","t","r","i","e">>,
    <<"s","c","o","p","e">>, <<"p","h","a","g","e">>, <<"g","è","n","e">>,
    <<"p","a","t","h","i","e">>, <<"t","h","é","r","a","p","i","e">>
  >>

complex_patterns ==
  <<
    <<"c","c">>, <<"m","m">>, <<"n","n">>, <<"f","f">>, <<"l","l">>,
    <<"r","r">>, <<"s","s">>, <<"t","t">>, <<"p","p">>, <<"p","h">>,
    <<"t","h">>, <<"c","h">>, <<"g","n">>, <<"q","u">>, <<"x">>,
    <<"y">>, <<"w">>
  >>

\* re.match(r'.*SUFFIX$', s): '.' matches any character but a newline, and
\* '$' matches at the end of s or just before a newline that ends s
re_match_suffix(suffix, s) ==
  \E k \in 0..Len(s) :
    /\ k + Len(suffix) <= Len(s)
    /\ \A i \in 1..k : s[i] # "\n"
    /\ SubSeq(s, k + 1, k + Len(suffix)) = suffix
    /\ \/ k + Len(suffix) = Len(s)
       \/ k + Len(suffix) = Len(s) - 1 /\ s[Len(s)] = "\n"

\* re.search(r'.*INFIX.*', s): the search may start at any position and both
\* '.*' may match nothing, so it succeeds exactly where INFIX occurs
re_search_infix(infix, s) ==
  \E k \in 1..(Len(s) - Len(infix) + 1) :
    SubSeq(s, k, k + Len(infix) - 1) = infix

is_technical_term(word) ==
  LET word_lower == lower(word)
  IN  \E p \in 1..Len(technical_patterns) :
        re_match_suffix(technical_patterns[p], word_lower)

\* sum(1 for pattern in complex_patterns if re.search(pattern, word_lower))
RECURSIVE complex_count(_, _)
complex_count(word_lower, p) ==
  IF p > Len(complex_patterns)
  THEN 0
  ELSE (IF re_search_infix(complex_patterns[p], word_lower) THEN 1 ELSE 0)
       + complex_count(word_lower, p + 1)

\* has_complex_spelling flagging a word on its first matching pattern
has_complex_spelling_any(word) ==
  complex_count(lower(word), 1) >= 1

has_complex_spelling(word) ==
  LET word_lower == lower(word)
  IN  complex_count(word_lower, 1) >= 2

(***************************************************************************)
(* categorize_word                                                         *)
(***************************************************************************)
easy_words ==
  <<
    <<"u","n">>, <<"u","n","e">>, <<"l","e">>,
    <<"l","a">>, <<"l","e","s">>, <<"d","e">>,
    <<"d","u">>, <<"d","e","s">>, <<"e","t">>,
    <<"o","u">>, <<"o","ù">>, <<"q","u","i">>,
    <<"q","u","e">>, <<"q","u","o","i">>, <<"a","v","e","c">>,
    <<"p","o","u","r">>, <<"d","a","n","s">>, <<"s","u","r">>,
    <<"s","o","u","s">>, <<"p","a","r">>, <<"c","h","a","t">>,
    <<"c","h","i","e","n">>, <<"e","a","u">>, <<"f","e","u">>,
    <<"a","i","r">>, <<"t","e","r","r","e">>, <<"j","o","u","r">>,
    <<"n","u","i","t">>, <<"a","m","i">>, <<"p","è","r","e">>,
    <<"m","è","r","e">>, <<"f","i","l","s">>, <<"f","i","l","l","e">>,
    <<"h","o","m","m","e">>, <<"f","e","m","m","e">>, <<"e","n","f","a","n","t">>,
    <<"b","é","b","é">>, <<"r","o","u","g","e">>, <<"b","l","e","u">>,
    <<"v","e","r","t">>, <<"j","a","u","n","e">>, <<"n","o","i","r">>,
    <<"b","l","a","n","c">>, <<"g","r","a","n","d">>, <<"p","e","t","i","t">>,
    <<"b","o","n">>, <<"m","a","u","v","a","i","s">>, <<"b","e","a","u">>,
    <<"l","a","i","d">>, <<"n","o","u","v","e","a","u">>, <<"v","i","e","u","x">>,
    <<"j","e","u","n","e">>, <<"m","a","n","g","e","r">>, <<"b","o","i","r","e">>,
    <<"d","o","r","m","i","r">>, <<"m","a","r","c","h","e","r">>, <<"c","o","u","r","i","r">>,
    <<"v","o","i","r">>, <<"e","n","t","e","n","d","r","e">>, <<"p","a","r","l","e","r">>,
    <<"é","c","o","u","t","e","r">>, <<"r","e","g","a","r","d","e","r">>, <<"s","e","n","t","i","r">>,
    <<"t","o","u","c","h","e","r">>, <<"a","i","m","e","r">>, <<"m","a","i","s","o","n">>,
    <<"é","c","o","l","e">>, <<"t","r","a","v","a","i","l">>, <<"v","o","i","t","u","r","e">>,
    <<"t","r","a","i","n">>, <<"a","v","i","o","n">>, <<"l","i","v","r","e">>,
    <<"p","a","i","n">>, <<"l","a","i","t">>, <<"v","i","a","n","d","e">>,
    <<"f","r","u","i","t">>, <<"l","é","g","u","m","e">>, <<"t","e","m","p","s">>,
    <<"a","r","g","e","n","t">>
  >>

Tiers == {"facile", "moyen", "difficile"}

\* the curated list consulted without lower-casing the word
is_easy_word_case_sensitive(single_word) ==
  \E i \in 1..Len(easy_words) : easy_words[i] = single_word

\* single_word.lower() in [...]
is_easy_word(single_word) ==
  \E i \in 1..Len(easy_words) : easy_words[i] = lower(single_word)

\* the phrase branch measuring the text with all whitespace removed
phrase_tier_no_whitespace(word, words) ==
  LET total_length == Len(SelectSeq(word, LAMBDA c : c \notin Whitespace))
  IN  IF Len(words) <= 2 /\ total_length <= 5 * Len(words)
      THEN "facile"
      ELSE IF Len(words) <= 3 /\ total_length <= 7 * Len(words)
           THEN "moyen"
           ELSE "difficile"

\* the phrase branch; avg_word_length = total_length / len(words) is a true
\* division, so avg_word_length <= c exactly when total_length <= c * len(words)
phrase_tier(word, words) ==
  LET total_length == Len(replace_char(word, " "))
  IN  IF Len(words) <= 2 /\ total_length <= 5 * Len(words)
      THEN "facile"
      ELSE IF Len(words) <= 3 /\ total_length <= 7 * Len(words)
           THEN "moyen"
           ELSE "difficile"

\* the single word analysis with the simple-word rule tried first
single_word_tier_easy_first(single_word) ==
  LET word_length == Len(single_word)
      syllable_count == count_syllables(single_word)
  IN  IF (word_length <= 5 /\ syllable_count <= 2) \/ is_easy_word(single_word)
      THEN "facile"
      ELSE IF is_technical_term(single_word)
      THEN "difficile"
      ELSE IF has_complex_spelling(single_word) /\ word_length > 8
      THEN "difficile"
      ELSE IF \/ word_length > 12
              \/ syllable_count > 4
              \/ is_technical_term(single_word)
              \/ has_complex_spelling(single_word)
      THEN "difficile"
      ELSE "moyen"

\* the single word analysis without its first technical-term check
single_word_tier_no_first_check(single_word) ==
  LET word_length == Len(single_word)
      syllable_count == count_syllables(single_word)
  IN  IF has_complex_spelling(single_word) /\ word_length > 8
      THEN "difficile"
      ELSE IF (word_length <= 5 /\ syllable_count <= 2) \/ is_easy_word(single_word)
      THEN "facile"
      ELSE IF \/ word_length > 12
              \/ syllable_count > 4
              \/ is_technical_term(single_word)
              \/ has_complex_spelling(single_word)
      THEN "difficile"
      ELSE "moyen"

\* the single word analysis
single_word_tier(single_word) ==
  LET word_length == Len(single_word)
      syllable_count == count_syllables(single_word)
  IN  IF is_technical_term(single_word)
      THEN "difficile"
      ELSE IF has_complex_spelling(single_word) /\ word_length > 8
      THEN "difficile"
      ELSE IF (word_length <= 5 /\ syllable_count <= 2) \/ is_easy_word(single_word)
      THEN "facile"
      ELSE IF \/ word_length > 12
              \/ syllable_count > 4
              \/ is_technical_term(single_word)
              \/ has_complex_spelling(single_word)
      THEN "difficile"
      ELSE "moyen"

\* returns the tier, or the name of the exception words[0] raises on an empty list
categorize_word(word) ==
  LET words == split(strip(word))
  IN  IF Len(words) > 1
      THEN phrase_tier(word, words)
      ELSE IF Len(words) = 0
           THEN "IndexError"
           ELSE single_word_tier(words[1])

(***************************************************************************)
(* Arguments the functions are called on                                   *)
(***************************************************************************)
RECURSIVE Rep(_, _)
Rep(unit, k) == IF k = 0 THEN <<>> ELSE unit \o Rep(unit, k - 1)

\* all sequences over S of length at most n
RECURSIVE SeqsUpTo(_, _)
SeqsUpTo(S, n) ==
  IF n = 0
  THEN {<<>>}
  ELSE LET shorter == SeqsUpTo(S, n - 1)
       IN  shorter \cup {Append(s, c) : s \in {t \in shorter : Len(t) = n - 1}, c \in S}

\* w in every mix of upper and lower case
RECURSIVE CaseVariants(_)
CaseVariants(w) ==
  IF w = <<>>
  THEN {<<>>}
  ELSE {<<c>> \o r : c \in {w[1], char_upper(w[1])}, r \in CaseVariants(Tail(w))}

upper(s) == [i \in 1..Len(s) |-> char_upper(s[i])]

RECURSIVE Join(_, _)
Join(tokens, sep) ==
  IF Len(tokens) = 1
  THEN tokens[1]
  ELSE tokens[1] \o sep \o Join(Tail(tokens), sep)

Range(s) == {s[i] : i \in 1..Len(s)}

Pads == SeqsUpTo({" ", "\n"}, MaxPad)

EasyCased == UNION {CaseVariants(w) : w \in Range(easy_words)}

CoreWords ==
  { <<"c","h","a","t">>, <<"e","n","f","a","n","t">>, <<"r","y","t","h","m","e">>,
    <<"a","b","s","o","r","p","t","i","o","n">>,
    <<"x","y","l","o","p","h","o","n","e","s">>, <<"b">> }

PaddedWords == {l \o w \o r : l \in Pads, w \in CoreWords, r \in Pads}

Fillers == {Rep(u, k) : u \in {<<"b","a">>, <<"b","b">>}, k \in 0..MaxRep}

PatternPairs ==
  {p \o q : p \in Range(complex_patterns) \cup {<<>>},
            q \in Range(complex_patterns) \cup {<<>>}}

BuiltWords ==
  {f \o pq \o e : f \in Fillers, pq \in PatternPairs,
                  e \in {<<>>, <<"e">>, <<"t","i","o","n">>}}

UpperBuiltWords == {f \o upper(pq) : f \in Fillers, pq \in PatternPairs}

TechnicalWords ==
  {f \o v : f \in Fillers,
            v \in UNION {CaseVariants(s) : s \in Range(technical_patterns)}}

ShortWords == SeqsUpTo({"a", "e", "é", "E", "b", "-"}, MaxSylLen)

PhraseTails == SeqsUpTo({<<"b">>, <<"t","i","o","n">>}, MaxTokens - 1) \ {<<>>}

Phrases ==
  {l \o Join(<<Rep(<<"b">>, n)>> \o rest, sep) \o r :
     l \in {<<>>, <<" ">>}, n \in 1..MaxTokLen, rest \in PhraseTails,
     sep \in {<<" ">>, <<"\t">>, <<" ", " ">>}, r \in {<<>>, <<"\n">>}}

Texts ==
  Pads \cup EasyCased \cup PaddedWords \cup BuiltWords \cup UpperBuiltWords
       \cup TechnicalWords \cup ShortWords \cup Phrases

(***************************************************************************)
(* Calls of the four functions                                             *)
(***************************************************************************)
CallCategorizeWord ==
  /\ fn = "none"
  /\ fn' = "categorize_word"
  /\ ret' = categorize_word(text)
  /\ UNCHANGED <<text, build_vars>>

CallCountSyllables ==
  /\ fn = "none"
  /\ fn' = "count_syllables"
  /\ ret' = count_syllables(text)
  /\ UNCHANGED <<text, build_vars>>

CallIsTechnicalTerm ==
  /\ fn = "none"
  /\ fn' = "is_technical_term"
  /\ ret' = is_technical_term(text)
  /\ UNCHANGED <<text, build_vars>>

CallHasComplexSpelling ==
  /\ fn = "none"
  /\ fn' = "has_complex_spelling"
  /\ ret' = has_complex_spelling(text)
  /\ UNCHANGED <<text, build_vars>>

(***************************************************************************)
(* parse_words_file                                                        *)
(***************************************************************************)
\* a Python dict: its keys in insertion order and its values
EmptyDict == [keys |-> <<>>, val |-> [k \in {} |-> <<>>]]

\* d[k] = v
dict_set(d, k, v) ==
  [keys |-> IF k \in DOMAIN d.val THEN d.keys ELSE Append(d.keys, k),
   val  |-> [x \in DOMAIN d.val \cup {k} |-> IF x = k THEN v ELSE d.val[x]]]

\* a JSON value of the input object: a string, or something else (null, a number)
Str(chars) == [is_str |-> TRUE, chars |-> chars]

NotStr == [is_str |-> FALSE, chars |-> <<>>]

\* json.load on an object: a later duplicate of a key replaces its value
RECURSIVE json_object(_, _)
json_object(pairs, d) ==
  IF pairs = <<>>
  THEN d
  ELSE json_object(Tail(pairs), dict_set(d, Head(pairs)[1], Head(pairs)[2]))

\* categorize_word on a loaded value: word.strip() needs a str
categorize_value(word) ==
  IF word.is_str THEN categorize_word(word.chars) ELSE "AttributeError"

EmptyCategorized ==
  [facile |-> EmptyDict, moyen |-> EmptyDict, difficile |-> EmptyDict]

\* the insertion replacing the tier's dict instead of adding to it
InsertEntry_replacing(cw, difficulty, filename, word) ==
  [cw EXCEPT ![difficulty] = dict_set(EmptyDict, filename, word)]

\* categorized_words[difficulty][filename] = word
InsertEntry(cw, difficulty, filename, word) ==
  [cw EXCEPT ![difficulty] = dict_set(cw[difficulty], filename, word)]

\* the classes of the exceptions the build can raise, each with its base class
ExceptionBase ==
  [FileNotFoundError |-> "OSError", PermissionError |-> "OSError",
   OSError |-> "Exception", JSONDecodeError |-> "ValueError",
   ValueError |-> "Exception", IndexError |-> "LookupError",
   LookupError |-> "Exception", AttributeError |-> "Exception",
   TypeError |-> "Exception",
   Exception |-> "BaseException", BaseException |-> "object"]

\* whether an except clause naming class cls catches an exception of class e
RECURSIVE isinstance(_, _)
isinstance(e, cls) ==
  \/ e = cls
  \/ e \in DOMAIN ExceptionBase /\ isinstance(ExceptionBase[e], cls)

Line(msg, arg) == [line |-> msg, arg |-> arg]

AssetIds == {"a.flac", "b.flac"}

SampleValues ==
  { Str(<<"c","h","a","t">>), Str(<<"f","r","o","m","a","g","e">>),
    Str(<<"a","b","s","o","r","p","t","i","o","n">>), Str(<<>>), NotStr }

\* what can be at the input path
InputFiles ==
  { [kind |-> k, pairs |-> <<>>] : k \in {"missing", "invalid", "scalar", "array"} }
  \cup
  { [kind |-> "object", pairs |-> ps] :
      ps \in SeqsUpTo(AssetIds \X SampleValues, MaxEntries) }

AbsentFile == [state |-> "absent", content |-> EmptyCategorized]

StaleFile == [state |-> "stale", content |-> EmptyCategorized]

\* open(input_file), json.load, the first print and the start of the for loop
LoadInput ==
  /\ pc = "open"
  /\ CASE input_file.kind = "missing" ->
            /\ exc' = "FileNotFoundError"
            /\ pc' = "except"
            /\ UNCHANGED <<words_data, remaining, categorized_words, stdout>>
       [] input_file.kind = "invalid" ->
            /\ exc' = "JSONDecodeError"
            /\ pc' = "except"
            /\ UNCHANGED <<words_data, remaining, categorized_words, stdout>>
       [] input_file.kind = "scalar" ->
            \* a JSON number loads, but has no len()
            /\ exc' = "TypeError"
            /\ pc' = "except"
            /\ UNCHANGED <<words_data, remaining, categorized_words, stdout>>
       [] input_file.kind = "array" ->
            \* a list has a len() but no items()
            /\ stdout' = Append(stdout, Line("Loaded entries", 0))
            /\ exc' = "AttributeError"
            /\ pc' = "except"
            /\ UNCHANGED <<words_data, remaining, categorized_words>>
       [] input_file.kind = "object" ->
            /\ words_data' = json_object(input_file.pairs, EmptyDict)
            /\ stdout' = Append(stdout, Line("Loaded entries", Len(words_data'.keys)))
            /\ categorized_words' = EmptyCategorized
            /\ remaining' = words_data'.keys
            /\ pc' = IF remaining' = <<>> THEN "stats" ELSE "loop"
            /\ UNCHANGED exc
  /\ UNCHANGED <<input_file, output_env, output_file, fn_vars>>

\* one iteration of a for loop that skips an entry it cannot classify
ClassifyEntry_skipping ==
  /\ pc = "loop"
  /\ LET filename == Head(remaining)
         word == words_data.val[filename]
         difficulty == categorize_value(word)
     IN  /\ categorized_words' =
              IF difficulty \in Tiers
              THEN InsertEntry(categorized_words, difficulty, filename, word)
              ELSE categorized_words
         /\ remaining' = Tail(remaining)
         /\ pc' = IF remaining' = <<>> THEN "stats" ELSE "loop"
         /\ UNCHANGED exc
  /\ UNCHANGED <<input_file, output_env, output_file, words_data, stdout, fn_vars>>

\* one iteration of the for loop
ClassifyEntry ==
  /\ pc = "loop"
  /\ LET filename == Head(remaining)
         word == words_data.val[filename]
         difficulty == categorize_value(word)
     IN  IF difficulty \in Tiers
         THEN /\ categorized_words' = InsertEntry(categorized_words, difficulty, filename, word)
              /\ remaining' = Tail(remaining)
              /\ pc' = IF remaining' = <<>> THEN "stats" ELSE "loop"
              /\ UNCHANGED exc
         ELSE /\ exc' = difficulty
              /\ pc' = "except"
              /\ UNCHANGED <<categorized_words, remaining>>
  /\ UNCHANGED <<input_file, output_env, output_file, words_data, stdout, fn_vars>>

\* the statistics printed after the loop
PrintStatistics ==
  /\ pc = "stats"
  /\ stdout' = stdout \o
       << Line("Categorization complete", 0),
          Line("Facile", Len(categorized_words["facile"].keys)),
          Line("Moyen", Len(categorized_words["moyen"].keys)),
          Line("Difficile", Len(categorized_words["difficile"].keys)),
          Line("Total", Len(categorized_words["facile"].keys)
                        + Len(categorized_words["moyen"].keys)
                        + Len(categorized_words["difficile"].keys)) >>
  /\ pc' = "persist"
  /\ UNCHANGED <<input_file, output_env, output_file, words_data, remaining,
                 categorized_words, exc, fn_vars>>

\* open(output_file, 'w') and json.dump
WriteOutput ==
  /\ pc = "persist"
  /\ CASE output_env = "ok" ->
            /\ output_file' = [state |-> "written", content |-> categorized_words]
            /\ stdout' = Append(stdout, Line("Categorized dictionary saved", 0))
            /\ pc' = "examples"
            /\ UNCHANGED exc
       [] output_env = "denied" ->
            \* open fails: the path is left as it was
            /\ exc' = "PermissionError"
            /\ pc' = "except"
            /\ UNCHANGED <<output_file, stdout>>
       [] output_env = "disk_full" ->
            \* open truncates, the dump fails midway
            /\ output_file' = [state |-> "partial", content |-> EmptyCategorized]
            /\ exc' = "OSError"
            /\ pc' = "except"
            /\ UNCHANGED stdout
  /\ UNCHANGED <<input_file, output_env, words_data, remaining, categorized_words,
                 fn_vars>>

min(a, b) == IF a <= b THEN a ELSE b

\* the lines the examples loop prints for one tier
ExampleLines(difficulty, words) ==
  IF words.keys = <<>>
  THEN <<>>
  ELSE <<Line(difficulty, min(Len(words.keys), 5))>>
       \o (IF Len(words.keys) > 5
           THEN <<Line("and more", Len(words.keys) - 5)>>
           ELSE <<>>)

PrintExamples ==
  /\ pc = "examples"
  /\ stdout' = stdout \o <<Line("Examples from each category", 0)>>
                      \o ExampleLines("facile", categorized_words["facile"])
                      \o ExampleLines("moyen", categorized_words["moyen"])
                      \o ExampleLines("difficile", categorized_words["difficile"])
  /\ pc' = "returned"
  /\ UNCHANGED <<input_file, output_env, output_file, words_data, remaining,
                 categorized_words, exc, fn_vars>>

\* the except clauses without the final `except Exception`
HandleException_no_catch_all ==
  /\ pc = "except"
  /\ IF isinstance(exc, "FileNotFoundError")
     THEN /\ stdout' = stdout \o << Line("Error: Could not find", 0),
                                    Line("Make sure the file exists", 0) >>
          /\ pc' = "returned"
     ELSE IF isinstance(exc, "JSONDecodeError")
     THEN /\ stdout' = stdout \o << Line("Error: Invalid JSON", 0),
                                    Line("Details", 0) >>
          /\ pc' = "returned"
     ELSE /\ pc' = "uncaught"
          /\ UNCHANGED stdout
  /\ UNCHANGED <<input_file, output_env, output_file, words_data, remaining,
                 categorized_words, exc, fn_vars>>

\* the except clauses, tried in order; an exception none of them names propagates
HandleException ==
  /\ pc = "except"
  /\ IF isinstance(exc, "FileNotFoundError")
     THEN /\ stdout' = stdout \o << Line("Error: Could not find", 0),
                                    Line("Make sure the file exists", 0) >>
          /\ pc' = "returned"
     ELSE IF isinstance(exc, "JSONDecodeError")
     THEN /\ stdout' = stdout \o << Line("Error: Invalid JSON", 0),
                                    Line("Details", 0) >>
          /\ pc' = "returned"
     ELSE IF isinstance(exc, "Exception")
     THEN /\ stdout' = Append(stdout, Line("Error", 0))
          /\ pc' = "returned"
     ELSE /\ pc' = "uncaught"
          /\ UNCHANGED stdout
  /\ UNCHANGED <<input_file, output_env, output_file, words_data, remaining,
                 categorized_words, exc, fn_vars>>

(***************************************************************************)
(* Specifications                                                          *)
(***************************************************************************)
\* a run of parse_words_file
Init ==
  /\ pc = "open"
  /\ input_file \in InputFiles
  /\ output_env \in {"ok", "denied", "disk_full"}
  /\ output_file \in {AbsentFile, StaleFile}
  /\ words_data = EmptyDict
  /\ remaining = <<>>
  /\ categorized_words = EmptyCategorized
  /\ stdout = <<>>
  /\ exc = "None"
  /\ text = <<>>
  /\ fn = "idle"
  /\ ret = "None"

Next ==
  \/ LoadInput
  \/ ClassifyEntry
  \/ PrintStatistics
  \/ WriteOutput
  \/ PrintExamples
  \/ HandleException

Spec == Init /\ [][Next]_vars

\* one call of one of the four functions on one argument
InitFn ==
  /\ text \in Texts
  /\ fn = "none"
  /\ ret = "None"
  /\ pc = "idle"
  /\ input_file = [kind |-> "missing", pairs |-> <<>>]
  /\ output_env = "ok"
  /\ output_file = AbsentFile
  /\ words_data = EmptyDict
  /\ remaining = <<>>
  /\ categorized_words = EmptyCategorized
  /\ stdout = <<>>
  /\ exc = "None"

NextFn ==
  \/ CallCategorizeWord
  \/ CallCountSyllables
  \/ CallIsTechnicalTerm
  \/ CallHasComplexSpelling

SpecFn == InitFn /\ [][NextFn]_vars

(***************************************************************************)
(* Vocabulary of the claims                                                *)
(***************************************************************************)
\* positions where a token of t starts
TokenStarts(t) ==
  {i \in 1..Len(t) : t[i] \notin Whitespace /\ (i = 1 \/ t[i - 1] \in Whitespace)}

TokenCount(t) == Cardinality(TokenStarts(t))

\* the token of a text that has exactly one
OnlyToken(t) == SelectSeq(t, LAMBDA c : c \notin Whitespace)

Occurs(p, s) == \E k \in 0..(Len(s) - Len(p)) : \A j \in 1..Len(p) : s[k + j] = p[j]

HasSuffix(s, p) ==
  Len(s) >= Len(p) /\ \A j \in 1..Len(p) : s[Len(s) - Len(p) + j] = p[j]

\* the 11 technical suffixes
SpecSuffixes ==
  { <<"t","i","o","n">>, <<"s","i","o","n">>, <<"i","q","u","e">>,
    <<"l","o","g","i","e">>, <<"g","r","a","p","h","i","e">>,
    <<"m","é","t","r","i","e">>, <<"s","c","o","p","e">>, <<"p","h","a","g","e">>,
    <<"g","è","n","e">>, <<"p","a","t","h","i","e">>,
    <<"t","h","é","r","a","p","i","e">> }

\* the 17 complex-spelling patterns
SpecPatterns ==
  { <<"c","c">>, <<"m","m">>, <<"n","n">>, <<"f","f">>, <<"l","l">>, <<"r","r">>,
    <<"s","s">>, <<"t","t">>, <<"p","p">>, <<"p","h">>, <<"t","h">>, <<"c","h">>,
    <<"g","n">>, <<"q","u">>, <<"x">>, <<"y">>, <<"w">> }

MatchedPatterns(w) == {p \in SpecPatterns : Occurs(p, lower(w))}

TechnicalSuffixed(w) == \E s \in SpecSuffixes : HasSuffix(lower(w), s)

Curated(w) == lower(w) \in Range(easy_words)

\* number of maximal runs of vowels in the lower-cased word
VowelRuns(w) ==
  Cardinality({i \in 1..Len(w) :
                 /\ lower(w)[i] \in vowels
                 /\ (i = 1 \/ lower(w)[i - 1] \notin vowels)})

SilentE(w) ==
  IF w # <<>> /\ lower(w)[Len(w)] = "e" /\ VowelRuns(w) > 1 THEN 1 ELSE 0

\* the cascade with rule 4 reduced to (length > 12 or syllables > 4)
VariantTier(w) ==
  IF is_technical_term(w) THEN "difficile"
  ELSE IF has_complex_spelling(w) /\ Len(w) > 8 THEN "difficile"
  ELSE IF (Len(w) <= 5 /\ count_syllables(w) <= 2) \/ is_easy_word(w) THEN "facile"
  ELSE IF Len(w) > 12 \/ count_syllables(w) > 4 THEN "difficile"
  ELSE "moyen"

\* the cascade with only the technical-term check dropped from rule 4
VariantTierKeepingSpelling(w) ==
  IF is_technical_term(w) THEN "difficile"
  ELSE IF has_complex_spelling(w) /\ Len(w) > 8 THEN "difficile"
  ELSE IF (Len(w) <= 5 /\ count_syllables(w) <= 2) \/ is_easy_word(w) THEN "facile"
  ELSE IF Len(w) > 12 \/ count_syllables(w) > 4 \/ has_complex_spelling(w)
       THEN "difficile"
  ELSE "moyen"

Categorized == fn = "categorize_word"

SingleWordCategorized == Categorized /\ TokenCount(text) = 1

\* the mapping the input file denotes: each key with its last value
InputKeys == {input_file.pairs[i][1] : i \in 1..Len(input_file.pairs)}

InputValue(k) ==
  LET last == CHOOSE i \in 1..Len(input_file.pairs) :
                /\ input_file.pairs[i][1] = k
                /\ \A j \in (i + 1)..Len(input_file.pairs) : input_file.pairs[j][1] # k
  IN  input_file.pairs[last][2]

Holds(tiers, t, k) == k \in DOMAIN tiers[t].val

\* tiers partitions the input mapping
Partitions(tiers) ==
  /\ \A k \in InputKeys :
       \E t \in Tiers :
         /\ Holds(tiers, t, k)
         /\ tiers[t].val[k] = InputValue(k)
         /\ \A u \in Tiers \ {t} : ~Holds(tiers, u, k)
  /\ UNION {DOMAIN tiers[t].val : t \in Tiers} = InputKeys

\* a value categorize_word cannot classify
Unclassifiable(v) == ~v.is_str \/ TokenCount(v.chars) = 0

FailingInput ==
  \/ input_file.kind \in {"missing", "invalid"}
  \/ input_file.kind = "object" /\ \E k \in InputKeys : Unclassifiable(InputValue(k))

ErrorReported ==
  LET n == Len(stdout)
  IN  /\ n >= 1
      /\ CASE exc = "FileNotFoundError" ->
                n >= 2 /\ stdout[n - 1].line = "Error: Could not find"
           [] exc = "JSONDecodeError" ->
                n >= 2 /\ stdout[n - 1].line = "Error: Invalid JSON"
           [] OTHER -> stdout[n].line = "Error"

(***************************************************************************)
(* The claims                                                              *)
(***************************************************************************)
\* C1: when every entry has been classified, each input key is in exactly one
\* tier dict with its input text, the tier dicts' keys are pairwise disjoint and
\* their union is the input key set; the written file holds the same dicts.
C1_Partition ==
  (pc \in {"stats", "persist", "examples"} \/ (pc = "returned" /\ exc = "None"))
    => /\ Partitions(categorized_words)
       /\ output_file.state = "written" => Partitions(output_file.content)

C1_Witness ==
  /\ pc = "returned" /\ exc = "None"
  /\ Len(input_file.pairs) > Cardinality(InputKeys)
  /\ Cardinality({t \in Tiers : output_file.content[t].keys # <<>>}) >= 2

\* C2: the output file changes only in the step taken after every entry was
\* classified, and never in a run whose input is missing, is not valid JSON or
\* holds an entry that cannot be classified.
C2_NoPartialOutput ==
  [][output_file' # output_file =>
       /\ ~FailingInput
       /\ pc = "persist"
       /\ remaining = <<>>
       /\ Partitions(categorized_words)]_vars

C2_Witness ==
  /\ pc = "returned" /\ exc = "IndexError"
  /\ \E t \in Tiers : categorized_words[t].keys # <<>>
  /\ output_file = StaleFile

\* C3: no exception leaves parse_words_file; a raised exception is answered by
\* its error message and the run ends there, with nothing else done.
C3_ErrorsCaught ==
  /\ [](pc # "uncaught" /\ (pc = "returned" /\ exc # "None" => ErrorReported))
  /\ [][exc # "None" =>
          /\ pc = "except" /\ pc' = "returned"
          /\ UNCHANGED <<input_file, output_file, words_data, remaining,
                         categorized_words, exc>>]_vars

C3_Witness ==
  /\ pc = "returned" /\ exc = "AttributeError"
  /\ input_file.kind = "object"
  /\ stdout[Len(stdout)].line = "Error"

\* C4: categorize_word returns one of the three tiers for every text.
C4_Total == Categorized => ret \in Tiers

\* C5: a single-token text whose lower-cased token ends with a technical suffix
\* is classified difficile.
C5_TechnicalSuffixHard ==
  SingleWordCategorized /\ TechnicalSuffixed(OnlyToken(text)) => ret = "difficile"

C5_Witness ==
  /\ SingleWordCategorized /\ TechnicalSuffixed(OnlyToken(text))
  /\ Len(OnlyToken(text)) <= 5
  /\ OnlyToken(text) # lower(OnlyToken(text))
  /\ ret = "difficile"

\* C6: a single-token text whose lower-cased token is a curated easy word is
\* classified facile.
C6_CuratedEasy ==
  SingleWordCategorized /\ Curated(OnlyToken(text)) => ret = "facile"

C6_Witness ==
  /\ SingleWordCategorized /\ Curated(OnlyToken(text))
  /\ Len(OnlyToken(text)) > 5
  /\ VowelRuns(OnlyToken(text)) - SilentE(OnlyToken(text)) > 2
  /\ OnlyToken(text) # lower(OnlyToken(text))
  /\ ret = "facile"

\* C7: a text of more than one token is classified by its token count and the
\* length of the text without its space characters alone: facile when at most 2
\* tokens average at most 5, else moyen when at most 3 tokens average at most
\* 7, else difficile.
C7_PhraseThresholds ==
  Categorized /\ TokenCount(text) > 1 =>
    LET tokenCount == TokenCount(text)
        total == Cardinality({i \in 1..Len(text) : text[i] # " "})
    IN  /\ ret = "facile" <=> (tokenCount <= 2 /\ total <= 5 * tokenCount)
        /\ ret = "moyen" <=> /\ ~(tokenCount <= 2 /\ total <= 5 * tokenCount)
                             /\ tokenCount <= 3 /\ total <= 7 * tokenCount
        /\ ret = "difficile" <=> /\ ~(tokenCount <= 2 /\ total <= 5 * tokenCount)
                                 /\ ~(tokenCount <= 3 /\ total <= 7 * tokenCount)
        /\ tokenCount >= 4 => ret = "difficile"

C7_Witness ==
  /\ Categorized /\ TokenCount(text) = 2
  /\ TechnicalSuffixed(text)
  /\ "\t" \in Range(text)
  /\ ret = "facile"

\* C8: has_complex_spelling is true exactly when at least 2 of the 17 patterns
\* occur in the lower-cased word, and a flagged single token longer than 8 is
\* classified difficile.
C8_ComplexSpelling ==
  /\ fn = "has_complex_spelling" => (ret <=> Cardinality(MatchedPatterns(text)) >= 2)
  /\ SingleWordCategorized
       /\ Cardinality(MatchedPatterns(OnlyToken(text))) >= 2
       /\ Len(OnlyToken(text)) > 8
       => ret = "difficile"

C8_Witness ==
  /\ SingleWordCategorized
  /\ Cardinality(MatchedPatterns(OnlyToken(text))) = 2
  /\ Len(OnlyToken(text)) \in 9..12
  /\ ~TechnicalSuffixed(OnlyToken(text))
  /\ OnlyToken(text) # lower(OnlyToken(text))
  /\ ret = "difficile"

C10_Rule4Inert ==
  SingleWordCategorized => ret = VariantTier(OnlyToken(text))

\* C10 amended: for a single token categorize_word agrees with the cascade
\* whose rule 4 drops only the technical-term check.
C10_TechnicalRecheckInert ==
  SingleWordCategorized => ret = VariantTierKeepingSpelling(OnlyToken(text))

C10_Witness ==
  /\ SingleWordCategorized
  /\ Cardinality(MatchedPatterns(OnlyToken(text))) >= 2
  /\ Len(OnlyToken(text)) \in 6..8
  /\ ~TechnicalSuffixed(OnlyToken(text))
  /\ ret = "difficile"

====
